---- MODULE Spec2Model ----
(***************************************************************************)
(* plot_training_metrics.py: a straight-line script that plots three       *)
(* panels (loss, PESQ, STOI) for seven hardcoded series, saves the figure, *)
(* shows it and prints a table of the final values.                        *)
(*                                                                         *)
(* Metric samples are held as integers in millionths (2.491368 -> 2491368);*)
(* printed numbers are held in thousandths (1.976 -> 1976).                *)
(***************************************************************************)
EXTENDS Integers, Sequences, FiniteSets, TLC

VARIABLES data, pc, idx, i, row, axes, fig, rcParams, saved, shown, stdout, err

vars == <<data, pc, idx, i, row, axes, fig, rcParams, saved, shown, stdout, err>>

(* ---------------------------------------------------------------------- *)
(* The dataset literal, as data.items(): a sequence of <<key, value>>.     *)
(* ---------------------------------------------------------------------- *)
EpochLiteral == <<1, 5, 10, 15, 20, 25, 30>>

Series1Short ==
  [loss |-> <<2491368, 2128137, 2081101, 2049871, 2021986, 1998126>>,
   pesq |-> <<1110734, 1102173, 1112359, 1175780, 1116488, 1101073, 1093451>>,
   stoi |-> <<346368, 498465, 558566, 489353, 477006, 470012, 450168>>]

Series1 ==
  [loss |-> <<2491368, 2128137, 2081101, 2049871, 2021986, 1998126, 1975821>>,
   pesq |-> <<1110734, 1102173, 1112359, 1175780, 1116488, 1101073, 1093451>>,
   stoi |-> <<346368, 498465, 558566, 489353, 477006, 470012, 450168>>]

Series2 ==
  [loss |-> <<2584934, 2233211, 2177864, 2136796, 2102346, 2073838, 2046205>>,
   pesq |-> <<1088980, 1108260, 1101254, 1102191, 1100971, 1093437, 1127178>>,
   stoi |-> <<438488, 400358, 447792, 450923, 424635, 499560, 454808>>]

Series3 ==
  [loss |-> <<2131643, 1736059, 1696551, 1672895, 1654387, 1640318, 1629985>>,
   pesq |-> <<1099543, 1079158, 1092555, 1144524, 1097848, 1075867, 1091959>>,
   stoi |-> <<595579, 597671, 614402, 640441, 627221, 616389, 616779>>]

Series4 ==
  [loss |-> <<1811897, 1475650, 1442068, 1421961, 1406229, 1394270, 1385487>>,
   pesq |-> <<1319452, 1294990, 1311066, 1373429, 1317418, 1291040, 1310351>>,
   stoi |-> <<536021, 537904, 552962, 576397, 564499, 554750, 555101>>]

Series5 ==
  [loss |-> <<1938700, 1674908, 1633398, 1602597, 1576759, 1555378, 1534654>>,
   pesq |-> <<1143429, 1163673, 1156317, 1157301, 1156020, 1148109, 1183537>>,
   stoi |-> <<306942, 280251, 313454, 315646, 297244, 349692, 318366>>]

Series6 ==
  [loss |-> <<1943267, 1659947, 1623259, 1598899, 1577149, 1558538, 1541140>>,
   pesq |-> <<1277344, 1267499, 1279213, 1352147, 1283961, 1266234, 1257469>>,
   stoi |-> <<374077, 538342, 603251, 528501, 515166, 507613, 486181>>]

Series7 ==
  [loss |-> <<1793785, 1532259, 1498393, 1475907, 1455830, 1438651, 1422591>>,
   pesq |-> <<1332881, 1322608, 1334831, 1410936, 1339786, 1321288, 1312141>>,
   stoi |-> <<387932, 558281, 625594, 548075, 534247, 526413, 504188>>]

DataLiteral ==
  << <<"epoch", EpochLiteral>>,
     <<"No Preprocessing", Series1>>,
     <<"MelSEGAN + VMD + VAD", Series2>>,
     <<"MelSEGAN + VMD + DTW", Series3>>,
     <<"MelSEGAN + VMD + DTW + MAML", Series4>>,
     <<"MelSEGAN + VAD + VMD + MAML", Series5>>,
     <<"UNet + HiFigan + VMD + VAD", Series6>>,
     <<"UNet + HiFigan + VMD + DTW", Series7>> >>

(* data['epoch'] *)
Epoch(d) == d[CHOOSE j \in DOMAIN d : d[j][1] = "epoch"][2]

(* ---------------------------------------------------------------------- *)
(* Plot configuration.                                                      *)
(* ---------------------------------------------------------------------- *)
colors == <<"#1f77b4", "#ff7f0e", "#2ca02c", "#d62728", "#9467bd", "#8c564b", "#e377c2">>

line_styles == <<"-", "-", "-", "-", "-", "--", "--">>

metricsSwapped == <<"loss", "stoi", "pesq">>

metrics == <<"loss", "pesq", "stoi">>

titles == <<"Training Loss", "PESQ Score", "STOI Score">>

ylabels == <<"Loss", "PESQ", "STOI">>

NumPanels == 3

XlimLo == 0

XlimHiShort == 30 - 5

XlimHi == 30

TitleEpochStale == 30 - 5

TitleEpoch == 30

RuleWidth == 80

(* Python sequence indexing with a 0-based, possibly negative, index. *)
PyInRange(seq, j) == /\ j < Len(seq)
                     /\ j >= 0 - Len(seq)

PyAt(seq, j) == IF j >= 0 THEN seq[j + 1] ELSE seq[Len(seq) + j + 1]

(* The palette index used for the item at enumerate position n. *)
PaletteIndexWrapped(n) == n - 2

PaletteIndex(n) == n - 1

StyleIndexZero(n) == 0

StyleIndex(n) == n - 1

(* values[metric] *)
MetricOf(values, m) == CASE m = "loss" -> values.loss
                         [] m = "pesq" -> values.pesq
                         [] m = "stoi" -> values.stoi

(* The outcomes of format(v, '.3f') for v in millionths, in thousandths.  *)
(* Off a tie the result is the nearest thousandth; on a decimal tie it     *)
(* depends on the binary value of the float and may go either way.         *)
Fmt3Trunc(v) == {v \div 1000}

Fmt3(v) == IF v % 1000 < 500 THEN {v \div 1000}
           ELSE IF v % 1000 > 500 THEN {(v \div 1000) + 1}
           ELSE {v \div 1000, (v \div 1000) + 1}

LastIndex == 0 - 1

(* An Axes object as plt.subplots creates it; the grid follows rcParams. *)
NewAxes(rc) == [lines |-> <<>>, title |-> "", xlabel |-> "", ylabel |-> "",
                grid |-> rc.grid, legend |-> <<>>, xlim |-> <<>>]

(* ---------------------------------------------------------------------- *)
(* Initial state: the module-level literal has been evaluated.             *)
(* ---------------------------------------------------------------------- *)
InitRest ==
  /\ pc = "style"
  /\ idx = 0
  /\ i = 0
  /\ row = 0
  /\ axes = <<>>
  /\ fig = [suptitle |-> "", tight |-> FALSE, right |-> 0, hspace |-> 0]
  /\ rcParams = [grid |-> FALSE, figsize |-> <<>>, fontsize |-> 0]
  /\ saved = 0
  /\ shown = 0
  /\ stdout = <<>>
  /\ err = "none"

Init == /\ data = DataLiteral
        /\ InitRest

(* ---------------------------------------------------------------------- *)
(* Chart Renderer                                                          *)
(* ---------------------------------------------------------------------- *)
SetStyle ==
  /\ pc = "style"
  /\ rcParams' = [grid |-> TRUE, figsize |-> <<15, 20>>, fontsize |-> 12]
  /\ pc' = "subplots"
  /\ UNCHANGED <<data, idx, i, row, axes, fig, saved, shown, stdout, err>>

Subplots ==
  /\ pc = "subplots"
  /\ axes' = [p \in 1..NumPanels |-> NewAxes(rcParams)]
  /\ fig' = [fig EXCEPT !.suptitle = "Training Metrics Comparison"]
  /\ idx' = 0
  /\ pc' = "outer"
  /\ UNCHANGED <<data, i, row, rcParams, saved, shown, stdout, err>>

(* for idx, (metric, title, ylabel) in enumerate(zip(metrics, titles, ylabels)) *)
OuterFor ==
  /\ pc = "outer"
  /\ IF idx < Len(metrics)
       THEN /\ i' = 0
            /\ pc' = "inner"
       ELSE /\ i' = i
            /\ pc' = "tight_layout"
  /\ UNCHANGED <<data, idx, row, axes, fig, rcParams, saved, shown, stdout, err>>

(* for i, (model, values) in enumerate(data.items()) *)
InnerFor ==
  /\ pc = "inner"
  /\ pc' = IF i < Len(data) THEN "body" ELSE "set_title"
  /\ UNCHANGED <<data, idx, i, row, axes, fig, rcParams, saved, shown, stdout, err>>

(* if model != 'epoch': axes[idx].plot(...).  plot raises ValueError when  *)
(* x and y differ in length.                                               *)
PlotBody ==
  /\ pc = "body"
  /\ LET model  == data[i + 1][1]
         values == data[i + 1][2]
         metric == metrics[idx + 1]
     IN IF model # "epoch"
          THEN LET x == Epoch(data)
                   y == MetricOf(values, metric)
               IN IF ~PyInRange(colors, PaletteIndex(i)) \/ ~PyInRange(line_styles, StyleIndex(i))
                    THEN /\ err' = "IndexError"
                         /\ pc' = "error"
                         /\ UNCHANGED <<axes, i>>
                    ELSE IF Len(x) # Len(y)
                      THEN /\ err' = "ValueError"
                           /\ pc' = "error"
                           /\ UNCHANGED <<axes, i>>
                      ELSE /\ axes' = [axes EXCEPT ![idx + 1].lines =
                                         Append(@, [x |-> x, y |-> y, label |-> model,
                                                    linewidth |-> 2,
                                                    color |-> PyAt(colors, PaletteIndex(i)),
                                                    linestyle |-> PyAt(line_styles, StyleIndex(i))])]
                           /\ i' = i + 1
                           /\ pc' = "inner"
                           /\ err' = err
          ELSE /\ i' = i + 1
               /\ pc' = "inner"
               /\ UNCHANGED <<axes, err>>
  /\ UNCHANGED <<data, idx, row, fig, rcParams, saved, shown, stdout>>

SetTitle ==
  /\ pc = "set_title"
  /\ axes' = [axes EXCEPT ![idx + 1].title = titles[idx + 1]]
  /\ pc' = "set_xlabel"
  /\ UNCHANGED <<data, idx, i, row, fig, rcParams, saved, shown, stdout, err>>

SetXlabel ==
  /\ pc = "set_xlabel"
  /\ axes' = [axes EXCEPT ![idx + 1].xlabel = "Epoch"]
  /\ pc' = "set_ylabel"
  /\ UNCHANGED <<data, idx, i, row, fig, rcParams, saved, shown, stdout, err>>

SetYlabel ==
  /\ pc = "set_ylabel"
  /\ axes' = [axes EXCEPT ![idx + 1].ylabel = ylabels[idx + 1]]
  /\ pc' = "grid"
  /\ UNCHANGED <<data, idx, i, row, fig, rcParams, saved, shown, stdout, err>>

Grid ==
  /\ pc = "grid"
  /\ axes' = [axes EXCEPT ![idx + 1].grid = TRUE]
  /\ pc' = "legend"
  /\ UNCHANGED <<data, idx, i, row, fig, rcParams, saved, shown, stdout, err>>

(* legend() lists the labels of the lines the panel holds at the call. *)
Legend ==
  /\ pc = "legend"
  /\ axes' = [axes EXCEPT ![idx + 1].legend =
                [k \in 1..Len(axes[idx + 1].lines) |-> axes[idx + 1].lines[k].label]]
  /\ pc' = "set_xlim"
  /\ UNCHANGED <<data, idx, i, row, fig, rcParams, saved, shown, stdout, err>>

SetXlim ==
  /\ pc = "set_xlim"
  /\ axes' = [axes EXCEPT ![idx + 1].xlim = <<XlimLo, XlimHi>>]
  /\ idx' = idx + 1
  /\ pc' = "outer"
  /\ UNCHANGED <<data, i, row, fig, rcParams, saved, shown, stdout, err>>

TightLayout ==
  /\ pc = "tight_layout"
  /\ fig' = [fig EXCEPT !.tight = TRUE]
  /\ pc' = "subplots_adjust"
  /\ UNCHANGED <<data, idx, i, row, axes, rcParams, saved, shown, stdout, err>>

(* right=0.85, hspace=0.3, held in hundredths *)
SubplotsAdjust ==
  /\ pc = "subplots_adjust"
  /\ fig' = [fig EXCEPT !.right = 85, !.hspace = 30]
  /\ pc' = "savefig"
  /\ UNCHANGED <<data, idx, i, row, axes, rcParams, saved, shown, stdout, err>>

SavefigSwallowed ==
  /\ pc = "savefig"
  /\ \E ok \in BOOLEAN :
       IF ok THEN /\ saved' = saved + 1
                  /\ pc' = "show"
                  /\ err' = err
             ELSE /\ saved' = saved
                  /\ pc' = "show"
                  /\ err' = "OSError"
  /\ UNCHANGED <<data, idx, i, row, axes, fig, rcParams, shown, stdout>>

(* savefig either writes the file or raises OSError (path not writable);   *)
(* the exception is not caught, so the script ends there.                  *)
Savefig ==
  /\ pc = "savefig"
  /\ \E ok \in BOOLEAN :
       IF ok THEN /\ saved' = saved + 1
                  /\ pc' = "show"
                  /\ err' = err
             ELSE /\ saved' = saved
                  /\ pc' = "error"
                  /\ err' = "OSError"
  /\ UNCHANGED <<data, idx, i, row, axes, fig, rcParams, shown, stdout>>

Show ==
  /\ pc = "show"
  /\ shown' = shown + 1
  /\ pc' = "print_title"
  /\ UNCHANGED <<data, idx, i, row, axes, fig, rcParams, saved, stdout, err>>

(* ---------------------------------------------------------------------- *)
(* Summary Reporter: one stdout entry per print call.                      *)
(* ---------------------------------------------------------------------- *)
TitleLine == [kind |-> "title", cols |-> <<"\nFinal Metrics (at Epoch ", "):">>,
              nums |-> <<TitleEpoch>>]

RuleLine == [kind |-> "rule", cols |-> <<"-">>, nums |-> <<RuleWidth>>]

HeaderLineSwapped == [kind |-> "header", cols |-> <<"Model", "PESQ", "Loss", "STOI">>,
                      nums |-> <<30, 10, 10, 10>>]

HeaderLine == [kind |-> "header", cols |-> <<"Model", "Loss", "PESQ", "STOI">>,
               nums |-> <<30, 10, 10, 10>>]

RowLine(model, l, p, s) == [kind |-> "row", cols |-> <<model>>, nums |-> <<l, p, s>>]

PrintTitle ==
  /\ pc = "print_title"
  /\ stdout' = Append(stdout, TitleLine)
  /\ pc' = "print_rule1"
  /\ UNCHANGED <<data, idx, i, row, axes, fig, rcParams, saved, shown, err>>

PrintRule1 ==
  /\ pc = "print_rule1"
  /\ stdout' = Append(stdout, RuleLine)
  /\ pc' = "print_header"
  /\ UNCHANGED <<data, idx, i, row, axes, fig, rcParams, saved, shown, err>>

PrintHeader ==
  /\ pc = "print_header"
  /\ stdout' = Append(stdout, HeaderLine)
  /\ pc' = "print_rule2"
  /\ UNCHANGED <<data, idx, i, row, axes, fig, rcParams, saved, shown, err>>

PrintRule2 ==
  /\ pc = "print_rule2"
  /\ stdout' = Append(stdout, RuleLine)
  /\ row' = 0
  /\ pc' = "row_for"
  /\ UNCHANGED <<data, idx, i, axes, fig, rcParams, saved, shown, err>>

(* for model, values in data.items() *)
RowFor ==
  /\ pc = "row_for"
  /\ pc' = IF row < Len(data) THEN "row_body" ELSE "print_rule3"
  /\ UNCHANGED <<data, idx, i, row, axes, fig, rcParams, saved, shown, stdout, err>>

(* if model != 'epoch': print(f"{model:<30} {values['loss'][-1]:>10.3f} ...") *)
RowBody ==
  /\ pc = "row_body"
  /\ LET model  == data[row + 1][1]
         values == data[row + 1][2]
     IN IF model # "epoch"
          THEN IF \E m \in {"loss", "pesq", "stoi"} : ~PyInRange(MetricOf(values, m), LastIndex)
                 THEN /\ err' = "IndexError"
                      /\ pc' = "error"
                      /\ UNCHANGED <<stdout, row>>
                 ELSE /\ \E l \in Fmt3(PyAt(values.loss, LastIndex)),
                            p \in Fmt3(PyAt(values.pesq, LastIndex)),
                            s \in Fmt3(PyAt(values.stoi, LastIndex)) :
                              stdout' = Append(stdout, RowLine(model, l, p, s))
                      /\ row' = row + 1
                      /\ pc' = "row_for"
                      /\ err' = err
          ELSE /\ row' = row + 1
               /\ pc' = "row_for"
               /\ UNCHANGED <<stdout, err>>
  /\ UNCHANGED <<data, idx, i, axes, fig, rcParams, saved, shown>>

PrintRule3 ==
  /\ pc = "print_rule3"
  /\ stdout' = Append(stdout, RuleLine)
  /\ pc' = "done"
  /\ UNCHANGED <<data, idx, i, row, axes, fig, rcParams, saved, shown, err>>

Next ==
  \/ SetStyle
  \/ Subplots
  \/ OuterFor
  \/ InnerFor
  \/ PlotBody
  \/ SetTitle
  \/ SetXlabel
  \/ SetYlabel
  \/ Grid
  \/ Legend
  \/ SetXlim
  \/ TightLayout
  \/ SubplotsAdjust
  \/ Savefig
  \/ Show
  \/ PrintTitle
  \/ PrintRule1
  \/ PrintHeader
  \/ PrintRule2
  \/ RowFor
  \/ RowBody
  \/ PrintRule3

Spec == Init /\ [][Next]_vars

(* ---------------------------------------------------------------------- *)
(* The same script run on datasets in which one metric sequence of one     *)
(* series has lost its last elements.                                      *)
(* ---------------------------------------------------------------------- *)
MaxDrop == 1

DropLast(seq, n) == SubSeq(seq, 1, Len(seq) - n)

Truncated(d, k, m, n) ==
  [d EXCEPT ![k] = <<d[k][1],
     [loss |-> IF m = "loss" THEN DropLast(d[k][2].loss, n) ELSE d[k][2].loss,
      pesq |-> IF m = "pesq" THEN DropLast(d[k][2].pesq, n) ELSE d[k][2].pesq,
      stoi |-> IF m = "stoi" THEN DropLast(d[k][2].stoi, n) ELSE d[k][2].stoi]>>]

Datasets == {DataLiteral} \cup
            {Truncated(DataLiteral, k, m, n) :
               k \in 2..Len(DataLiteral), m \in {"loss", "pesq", "stoi"}, n \in 1..MaxDrop}

InitAnyData == /\ data \in Datasets
               /\ InitRest

SpecAnyData == InitAnyData /\ [][Next]_vars

(* ====================================================================== *)
(* Properties                                                              *)
(* ====================================================================== *)

(* C1: every series' loss, pesq and stoi sequences are as long as the      *)
(* shared epoch sequence, in every state of the run.                       *)
C1_LengthsEqual ==
  \A k \in 1..Len(data) :
    data[k][1] # "epoch" =>
      /\ Len(data[k][2].loss) = Len(Epoch(data))
      /\ Len(data[k][2].pesq) = Len(Epoch(data))
      /\ Len(data[k][2].stoi) = Len(Epoch(data))

C1_Witness ==
  /\ pc = "done"
  /\ Len(data) = 8
  /\ Len(Epoch(data)) = 7

(* C2: once the rendering loops have finished, panel 1 (loss), panel 2     *)
(* (pesq) and panel 3 (stoi) each hold exactly 7 lines, the k-th being the *)
(* k-th series of the dataset: labelled with its name, its x the epoch     *)
(* sequence and its y that panel's metric of that series; no line and no   *)
(* legend entry is 'epoch'.                                                *)
C2_OneLinePerSeries ==
  (Len(axes) = 3 /\ idx = 3) =>
    \A p \in 1..3 :
      /\ Len(axes[p].lines) = 7
      /\ \A k \in 1..7 :
           /\ axes[p].lines[k].label = data[k + 1][1]
           /\ axes[p].lines[k].label # "epoch"
           /\ axes[p].lines[k].x = Epoch(data)
           /\ axes[p].lines[k].y = (CASE p = 1 -> data[k + 1][2].loss
                                      [] p = 2 -> data[k + 1][2].pesq
                                      [] p = 3 -> data[k + 1][2].stoi)
      /\ Len(axes[p].legend) = 7
      /\ \A k \in 1..7 : axes[p].legend[k] = data[k + 1][1]

C2_Witness ==
  /\ pc = "tight_layout"
  /\ idx = 3
  /\ Len(axes[3].lines) = 7
  /\ Len(axes[3].legend) = 7

(* C3: in every panel the k-th line drawn (k counted from 1, so series     *)
(* position k-1) has colour colors[(k-1) mod 7] and style                  *)
(* line_styles[(k-1) mod 7]; the colours of a panel's lines are pairwise   *)
(* distinct.                                                               *)
C3_ColourByIndex ==
  \A p \in 1..Len(axes) :
    /\ \A k \in 1..Len(axes[p].lines) :
         /\ axes[p].lines[k].color =
              <<"#1f77b4", "#ff7f0e", "#2ca02c", "#d62728", "#9467bd", "#8c564b", "#e377c2">>
                [((k - 1) % 7) + 1]
         /\ axes[p].lines[k].linestyle =
              <<"-", "-", "-", "-", "-", "--", "--">>[((k - 1) % 7) + 1]
    /\ \A k1, k2 \in 1..Len(axes[p].lines) :
         k1 # k2 => axes[p].lines[k1].color # axes[p].lines[k2].color

C3_Witness ==
  /\ Len(axes) = 3
  /\ \A p \in 1..3 : Len(axes[p].lines) = 7
  /\ axes[3].lines[7].label = "UNet + HiFigan + VMD + DTW"

(* C4 as stated: every panel's x range runs from the minimum to the        *)
(* maximum epoch of the dataset.                                           *)
C4_XlimMinToMax ==
  \A p \in 1..Len(axes) :
    axes[p].xlim # <<>> =>
      /\ \A n \in 1..Len(Epoch(data)) : axes[p].xlim[1] <= Epoch(data)[n]
      /\ \E n \in 1..Len(Epoch(data)) : axes[p].xlim[1] = Epoch(data)[n]
      /\ \A n \in 1..Len(Epoch(data)) : axes[p].xlim[2] >= Epoch(data)[n]
      /\ \E n \in 1..Len(Epoch(data)) : axes[p].xlim[2] = Epoch(data)[n]

(* C4 amended: every panel's x range runs from 0 to the maximum epoch of   *)
(* the dataset; the lower limit 0 lies below the minimum epoch.            *)
C4_XlimZeroToMax ==
  \A p \in 1..Len(axes) :
    axes[p].xlim # <<>> =>
      /\ axes[p].xlim[1] = 0
      /\ \A n \in 1..Len(Epoch(data)) : axes[p].xlim[1] < Epoch(data)[n]
      /\ \A n \in 1..Len(Epoch(data)) : axes[p].xlim[2] >= Epoch(data)[n]
      /\ \E n \in 1..Len(Epoch(data)) : axes[p].xlim[2] = Epoch(data)[n]

C4_Witness ==
  /\ Len(axes) = 3
  /\ \A p \in 1..3 : Len(axes[p].xlim) = 2

(* C5: standard output is always a prefix of: title, rule, header (Model,  *)
(* Loss, PESQ, STOI), rule, one row per series in dataset order, rule; a   *)
(* finished run has printed all 12 entries and nothing more.               *)
C5_TableOrder ==
  /\ Len(stdout) <= 12
  /\ pc = "done" => Len(stdout) = 12
  /\ \A n \in 1..Len(stdout) :
       /\ n = 1 => stdout[n].kind = "title"
       /\ n \in {2, 4, 12} => stdout[n].kind = "rule"
       /\ n = 3 => /\ stdout[n].kind = "header"
                   /\ stdout[n].cols = <<"Model", "Loss", "PESQ", "STOI">>
       /\ n \in 5..11 => /\ stdout[n].kind = "row"
                         /\ stdout[n].cols = <<data[n - 3][1]>>
                         /\ stdout[n].cols # <<"epoch">>

C5_Witness ==
  /\ pc = "done"
  /\ Len(stdout) = 12
  /\ stdout[11].cols = <<"UNet + HiFigan + VMD + DTW">>

(* C6: each number of a printed row is the last element of that series'    *)
(* metric sequence rounded to a thousandth (off by at most half a          *)
(* thousandth); the row of 'No Preprocessing' reads 1.976, 1.093, 0.450.   *)
C6_RowsShowLastRounded ==
  \A n \in 1..Len(stdout) :
    stdout[n].kind = "row" =>
      \A k \in 1..Len(data) :
        <<data[k][1]>> = stdout[n].cols =>
          /\ stdout[n].nums[1] * 1000 - data[k][2].loss[Len(data[k][2].loss)] \in -500..500
          /\ stdout[n].nums[2] * 1000 - data[k][2].pesq[Len(data[k][2].pesq)] \in -500..500
          /\ stdout[n].nums[3] * 1000 - data[k][2].stoi[Len(data[k][2].stoi)] \in -500..500
          /\ stdout[n].cols = <<"No Preprocessing">> => stdout[n].nums = <<1976, 1093, 450>>

C6_Witness ==
  /\ Len(stdout) >= 11
  /\ stdout[5].cols = <<"No Preprocessing">>
  /\ stdout[5].nums = <<1976, 1093, 450>>
  /\ stdout[11].kind = "row"

(* C7 as stated: on a dataset in which some metric sequence differs in     *)
(* length from the epoch sequence, nothing has been plotted, saved or      *)
(* printed in any state of the run.                                        *)
C7_NoOutputOnMismatch ==
  (\E k \in 1..Len(data) :
     /\ data[k][1] # "epoch"
     /\ \/ Len(data[k][2].loss) # Len(Epoch(data))
        \/ Len(data[k][2].pesq) # Len(Epoch(data))
        \/ Len(data[k][2].stoi) # Len(Epoch(data)))
  => /\ \A p \in 1..Len(axes) : axes[p].lines = <<>>
     /\ saved = 0
     /\ stdout = <<>>

(* C8: the image is saved at most once and only after all 21 lines are     *)
(* plotted; nothing is printed before the save has succeeded; a failed     *)
(* save ends the run with nothing printed; a finished run has saved once   *)
(* and printed the table once.                                             *)
C8_SaveThenPrint ==
  /\ saved <= 1
  /\ saved = 1 => /\ Len(axes) = 3
                  /\ \A p \in 1..3 : Len(axes[p].lines) = 7
  /\ stdout # <<>> => saved = 1
  /\ err = "OSError" => /\ pc = "error"
                        /\ saved = 0
                        /\ stdout = <<>>
  /\ pc = "done" => /\ saved = 1
                    /\ Cardinality({n \in 1..Len(stdout) : stdout[n].kind = "title"}) = 1
                    /\ Cardinality({n \in 1..Len(stdout) : stdout[n].kind = "header"}) = 1
                    /\ Cardinality({n \in 1..Len(stdout) : stdout[n].kind = "row"}) = 7

C8_Witness ==
  /\ pc = "done"
  /\ saved = 1
  /\ stdout # <<>>
  /\ err = "none"

(* C9 as stated: the first series is drawn with the last colour and the    *)
(* dashed style.                                                           *)
C9_FirstSeriesWraps ==
  \A p \in 1..Len(axes) :
    Len(axes[p].lines) >= 1 =>
      /\ axes[p].lines[1].label = "No Preprocessing"
      /\ axes[p].lines[1].color = "#e377c2"
      /\ axes[p].lines[1].linestyle = "--"

(* C9 amended: the first series, 'No Preprocessing', sits at enumerate     *)
(* position 1 (position 0 is 'epoch'), so it is drawn with the first       *)
(* colour, '#1f77b4', and the solid style; the last colour goes to the     *)
(* last series.                                                            *)
C9_FirstSeriesFirstColour ==
  \A p \in 1..Len(axes) :
    /\ Len(axes[p].lines) >= 1 =>
         /\ axes[p].lines[1].label = "No Preprocessing"
         /\ axes[p].lines[1].color = "#1f77b4"
         /\ axes[p].lines[1].linestyle = "-"
    /\ \A k \in 1..Len(axes[p].lines) :
         axes[p].lines[k].color = "#e377c2" =>
           axes[p].lines[k].label = "UNet + HiFigan + VMD + DTW"

C9_Witness ==
  /\ Len(axes) = 3
  /\ Len(axes[1].lines) = 7
  /\ axes[1].lines[1].label = "No Preprocessing"

(* C10: the epoch sequence is strictly increasing, so its last element is  *)
(* its maximum; the epoch in the printed title and the upper x limit of    *)
(* every panel equal that last element, and every printed row shows the    *)
(* samples at the index of that last epoch.                                *)
C10_TitleEpochIsLastEpoch ==
  /\ \A m, n \in 1..Len(Epoch(data)) : m < n => Epoch(data)[m] < Epoch(data)[n]
  /\ \A p \in 1..Len(axes) :
       axes[p].xlim # <<>> => axes[p].xlim[2] = Epoch(data)[Len(Epoch(data))]
  /\ \A n \in 1..Len(stdout) :
       /\ stdout[n].kind = "title" => stdout[n].nums = <<Epoch(data)[Len(Epoch(data))]>>
       /\ stdout[n].kind = "row" =>
            \A k \in 1..Len(data) :
              <<data[k][1]>> = stdout[n].cols =>
                /\ stdout[n].nums[1] \in Fmt3(data[k][2].loss[Len(Epoch(data))])
                /\ stdout[n].nums[2] \in Fmt3(data[k][2].pesq[Len(Epoch(data))])
                /\ stdout[n].nums[3] \in Fmt3(data[k][2].stoi[Len(Epoch(data))])

C10_Witness ==
  /\ pc = "done"
  /\ stdout[1].kind = "title"
  /\ stdout[1].nums = <<30>>
  /\ axes[3].xlim = <<0, 30>>

====
